---- MODULE Spec2Model ----
(***************************************************************************)
(* frameserver: one V4L2 capture buffer, one frame pump goroutine and any  *)
(* number of HTTP read handlers sharing the mapped buffer under a          *)
(* sync.RWMutex (src/main.go).                                             *)
(***************************************************************************)
EXTENDS Integers, Sequences, FiniteSets, TLC

\* ---- bounds -------------------------------------------------------------
NumReaders == 2     \* concurrent HTTP requests in flight
BufLen     == 1     \* cells of the mapped buffer
MaxFrames  == 2     \* frames the device completes before it stalls

Readers == 1..NumReaders

VARIABLES
    mainPc,     \* position of main()
    mapped,     \* the buffer is mapped (unix.Mmap done, Munmap not run)
    streaming,  \* VIDIOC_STREAMON issued and not VIDIOC_STREAMOFF
    slot,       \* lifecycle of the single buffer slot
    data,       \* mapped buffer: cell i holds the sequence number of the frame that wrote it
    devPos,     \* cells of the frame in progress the device has written
    devSeq,     \* frames the device has completed
    done,       \* what the driver reports for the completed slot: [bytesused, sequence]
    pumpPc,     \* position of framePump
    pumpErr,    \* value framePump returned ("none" while running)
    qbuf,       \* framePump's local v4l2_buffer: zeroed where each iteration declares it, filled by VIDIOC_DQBUF
    writer,     \* sync.RWMutex, writer side: "none", "pending", "held"
    jpegLen,    \* global jpegLen
    lenSeq,     \* sequence number of the frame whose dequeue stored jpegLen
    dequeues,   \* number of successful dequeues so far
    lastUsed,   \* history: bytesused the latest successful VIDIOC_DQBUF reported (0 before the first)
    enqueues,   \* number of successful enqueues (VIDIOC_QBUF) so far
    rpc,        \* position of each read handler
    rdLen,      \* length each handler evaluated for data[:jpegLen]
    rdSeq,      \* lenSeq at the time the handler evaluated jpegLen
    rdBytes,    \* bytes each handler has written to its response
    rdEpoch,    \* successful dequeues at the time the handler got shared access
    rdLate,     \* the pump had already returned when the request arrived
    panicked    \* some handler has panicked on data[:jpegLen] out of range

devVars  == <<slot, data, devPos, devSeq, done, enqueues>>
mainVars == <<mainPc, mapped, streaming>>
pumpVars == <<pumpPc, pumpErr, qbuf>>
rdVars   == <<rpc, rdLen, rdSeq, rdBytes, rdEpoch, rdLate, panicked>>
vars == <<mainPc, mapped, streaming, slot, data, devPos, devSeq, done,
          pumpPc, pumpErr, qbuf, writer, jpegLen, lenSeq, dequeues, lastUsed,
          enqueues, rpc, rdLen, rdSeq, rdBytes, rdEpoch, rdLate, panicked>>

NoBuf == [bytesused |-> 0, sequence |-> 0]

Init ==
    /\ mainPc = "setfmt"
    /\ mapped = FALSE
    /\ streaming = FALSE
    /\ slot = "unarmed"
    /\ data = [i \in 1..BufLen |-> 0]
    /\ devPos = 0
    /\ devSeq = 0
    /\ done = NoBuf
    /\ pumpPc = "notstarted"
    /\ pumpErr = "none"
    /\ qbuf = NoBuf
    /\ writer = "none"
    /\ jpegLen = 0
    /\ lenSeq = 0
    /\ dequeues = 0
    /\ lastUsed = 0
    /\ enqueues = 0
    /\ rpc = [r \in Readers |-> "idle"]
    /\ rdLen = [r \in Readers |-> 0]
    /\ rdSeq = [r \in Readers |-> 0]
    /\ rdBytes = [r \in Readers |-> <<>>]
    /\ rdEpoch = [r \in Readers |-> 0]
    /\ rdLate = [r \in Readers |-> FALSE]
    /\ panicked = FALSE

\* The process is alive: log.Fatal (os.Exit) ends every goroutine at once.
Alive == mainPc # "exited"

\* ---- main(): startup ----------------------------------------------------
StartupSteps == <<"setfmt", "reqbufs", "querybuf", "mmap", "qbuf", "streamon", "gopump", "serve">>

NextStep(s) ==
    StartupSteps[(CHOOSE i \in 1..Len(StartupSteps) : StartupSteps[i] = s) + 1]

\* VIDIOC_S_FMT, VIDIOC_REQBUFS, VIDIOC_QUERYBUF succeed
MainIoctlOK ==
    /\ mainPc \in {"setfmt", "reqbufs", "querybuf"}
    /\ mainPc' = NextStep(mainPc)
    /\ UNCHANGED <<mapped, streaming, devVars, pumpVars, writer, jpegLen,
                   lenSeq, dequeues, lastUsed, rdVars>>

\* variant: the unix.Mmap error is not checked and startup goes on unmapped
MainMmapUnchecked ==
    /\ mainPc = "mmap"
    /\ mainPc' = NextStep(mainPc)
    /\ UNCHANGED <<mapped, streaming, devVars, pumpVars, writer, jpegLen,
                   lenSeq, dequeues, lastUsed, rdVars>>

\* unix.Mmap succeeds; defer unix.Munmap registered
MainMmapOK ==
    /\ mainPc = "mmap"
    /\ mainPc' = NextStep(mainPc)
    /\ mapped' = TRUE
    /\ UNCHANGED <<streaming, devVars, pumpVars, writer, jpegLen,
                   lenSeq, dequeues, lastUsed, rdVars>>

\* initial VIDIOC_QBUF succeeds: Unarmed -> Armed
MainQbufOK ==
    /\ mainPc = "qbuf"
    /\ mainPc' = NextStep(mainPc)
    /\ slot' = "armed"
    /\ enqueues' = enqueues + 1
    /\ UNCHANGED <<mapped, streaming, data, devPos, devSeq, done, pumpVars,
                   writer, jpegLen, lenSeq, dequeues, lastUsed, rdVars>>

\* VIDIOC_STREAMON succeeds
MainStreamOnOK ==
    /\ mainPc = "streamon"
    /\ mainPc' = NextStep(mainPc)
    /\ streaming' = TRUE
    /\ UNCHANGED <<mapped, devVars, pumpVars, writer, jpegLen,
                   lenSeq, dequeues, lastUsed, rdVars>>

\* go framePump(dev): the returned error is discarded
MainGoPump ==
    /\ mainPc = "gopump"
    /\ mainPc' = NextStep(mainPc)
    /\ pumpPc' = "select"
    /\ UNCHANGED <<mapped, streaming, devVars, pumpErr, qbuf, writer, jpegLen,
                   lenSeq, dequeues, lastUsed, rdVars>>

\* any startup step fails, or http.ListenAndServe returns: log.Fatal calls
\* os.Exit, which does not run the deferred Munmap / STREAMOFF; every handler
\* goroutine is gone with the process, the pump stays wherever it was
MainFatal ==
    /\ mainPc \in {"setfmt", "reqbufs", "querybuf", "mmap", "qbuf", "streamon", "serve"}
    /\ mainPc' = "exited"
    /\ rpc' = [r \in Readers |-> "idle"]
    /\ rdLen' = [r \in Readers |-> 0]
    /\ rdSeq' = [r \in Readers |-> 0]
    /\ rdBytes' = [r \in Readers |-> <<>>]
    /\ rdEpoch' = [r \in Readers |-> 0]
    /\ rdLate' = [r \in Readers |-> FALSE]
    /\ UNCHANGED <<mapped, streaming, devVars, pumpVars, writer, jpegLen,
                   lenSeq, dequeues, lastUsed, panicked>>

\* ---- the capture device -------------------------------------------------
\* hardware writes the next byte of the frame in progress into the armed slot
DevWrite ==
    /\ Alive
    /\ slot = "armed"
    /\ streaming
    /\ devSeq < MaxFrames
    /\ devPos < BufLen
    /\ data' = [data EXCEPT ![devPos + 1] = devSeq + 1]
    /\ devPos' = devPos + 1
    /\ UNCHANGED <<mainVars, slot, devSeq, done, enqueues, pumpVars, writer, jpegLen,
                   lenSeq, dequeues, lastUsed, rdVars>>

\* values of the uint32 field bytesused for a frame of which the device wrote
\* the given number of bytes: that number, or, the program comparing the field
\* with nothing, a value beyond the mapped buffer (one stands for all of them)
BytesUsedValues(written) == {written, BufLen + 1}

\* hardware completes the frame: the slot becomes readable and the driver
\* reports bytesused
DevComplete ==
    /\ Alive
    /\ slot = "armed"
    /\ streaming
    /\ devSeq < MaxFrames
    /\ slot' = "done"
    /\ devSeq' = devSeq + 1
    /\ \E n \in BytesUsedValues(devPos) :
          done' = [bytesused |-> n, sequence |-> devSeq + 1]
    /\ devPos' = 0
    /\ UNCHANGED <<mainVars, data, enqueues, pumpVars, writer, jpegLen,
                   lenSeq, dequeues, lastUsed, rdVars>>

\* ---- sync.RWMutex -------------------------------------------------------
\* a handler holds shared access from RLock until the deferred RUnlock
Holding(r) == rpc[r] \in {"locked", "write"}

\* variant: RLock never looks at the writer
RLockAdmitsAlways == TRUE

\* RLock enters at once unless a writer has called Lock (pending or holding)
RLockAdmits == writer = "none"

\* Unlock wakes every reader that blocked in RLock; they hold shared access
Woken(pcs) == [r \in Readers |-> IF pcs[r] = "blocked" THEN "locked" ELSE pcs[r]]

\* ---- framePump ----------------------------------------------------------
\* unix.Select returns: the slot is readable
PumpSelectOK ==
    /\ Alive
    /\ pumpPc = "select"
    /\ slot = "done"
    /\ pumpPc' = "lock"
    /\ UNCHANGED <<mainVars, devVars, pumpErr, qbuf, writer, jpegLen,
                   lenSeq, dequeues, lastUsed, rdVars>>

\* unix.Select fails: return err, no lock taken
PumpSelectErr ==
    /\ Alive
    /\ pumpPc = "select"
    /\ pumpPc' = "returned"
    /\ pumpErr' = "select"
    /\ UNCHANGED <<mainVars, devVars, qbuf, writer, jpegLen,
                   lenSeq, dequeues, lastUsed, rdVars>>

\* mutex.Lock is called: later RLock calls block from now on
PumpLock ==
    /\ Alive
    /\ pumpPc = "lock"
    /\ writer' = "pending"
    /\ pumpPc' = "lockwait"
    /\ UNCHANGED <<mainVars, devVars, pumpErr, qbuf, jpegLen,
                   lenSeq, dequeues, lastUsed, rdVars>>

\* mutex.Lock returns once every reader that held shared access has left;
\* qbuf := v4l2_buffer{...} declares this iteration's buffer, bytesused zero
PumpLockAcquire ==
    /\ Alive
    /\ pumpPc = "lockwait"
    /\ \A r \in Readers : ~Holding(r)
    /\ writer' = "held"
    /\ qbuf' = NoBuf
    /\ pumpPc' = "dqbuf"
    /\ UNCHANGED <<mainVars, devVars, pumpErr, jpegLen,
                   lenSeq, dequeues, lastUsed, rdVars>>

\* VIDIOC_DQBUF succeeds: Done -> Filled, the driver fills qbuf
PumpDqbufOK ==
    /\ Alive
    /\ pumpPc = "dqbuf"
    /\ slot = "done"
    /\ slot' = "filled"
    /\ qbuf' = done
    /\ dequeues' = dequeues + 1
    /\ lastUsed' = done.bytesused
    /\ pumpPc' = "save"
    /\ UNCHANGED <<mainVars, data, devPos, devSeq, done, enqueues, pumpErr, writer,
                   jpegLen, lenSeq, rdVars>>

\* variant: the error path returns without mutex.Unlock
PumpDqbufErrNoUnlock ==
    /\ Alive
    /\ pumpPc = "dqbuf"
    /\ pumpPc' = "returned"
    /\ pumpErr' = "dqbuf"
    /\ UNCHANGED <<mainVars, devVars, qbuf, writer, jpegLen, lenSeq, dequeues, lastUsed, rdVars>>

\* variant: the error path unlocks but falls through to VIDIOC_QBUF
PumpDqbufErrRequeues ==
    /\ Alive
    /\ pumpPc = "dqbuf"
    /\ writer' = "none"
    /\ rpc' = Woken(rpc)
    /\ rdEpoch' = [r \in Readers |-> IF rpc[r] = "blocked" THEN dequeues ELSE rdEpoch[r]]
    /\ pumpPc' = "qbuf"
    /\ UNCHANGED <<mainVars, devVars, pumpErr, qbuf, jpegLen, lenSeq, dequeues, lastUsed,
                   rdLen, rdSeq, rdBytes, rdLate, panicked>>

\* VIDIOC_DQBUF fails: qbuf stays as declared; mutex.Unlock, return errno
PumpDqbufErr ==
    /\ Alive
    /\ pumpPc = "dqbuf"
    /\ writer' = "none"
    /\ rpc' = Woken(rpc)
    /\ rdEpoch' = [r \in Readers |-> IF rpc[r] = "blocked" THEN dequeues ELSE rdEpoch[r]]
    /\ pumpPc' = "returned"
    /\ pumpErr' = "dqbuf"
    /\ UNCHANGED <<mainVars, devVars, qbuf, jpegLen, lenSeq, dequeues, lastUsed,
                   rdLen, rdSeq, rdBytes, rdLate, panicked>>

\* variant: the assignment is lost, the old length stays
SavedLenStale(b) == jpegLen

\* the value stored by jpegLen = qbuf.bytesused
SavedLen(b) == b.bytesused

\* jpegLen = qbuf.bytesused
PumpSave ==
    /\ Alive
    /\ pumpPc = "save"
    /\ jpegLen' = SavedLen(qbuf)
    /\ lenSeq' = qbuf.sequence
    /\ pumpPc' = "unlock"
    /\ UNCHANGED <<mainVars, devVars, pumpErr, qbuf, writer, dequeues, lastUsed, rdVars>>

\* variant: the loop goes on to VIDIOC_QBUF without mutex.Unlock
PumpUnlockMissing ==
    /\ Alive
    /\ pumpPc = "unlock"
    /\ pumpPc' = "qbuf"
    /\ UNCHANGED <<mainVars, devVars, pumpErr, qbuf, writer, jpegLen, lenSeq, dequeues, lastUsed, rdVars>>

\* mutex.Unlock after the update
PumpUnlock ==
    /\ Alive
    /\ pumpPc = "unlock"
    /\ writer' = "none"
    /\ rpc' = Woken(rpc)
    /\ rdEpoch' = [r \in Readers |-> IF rpc[r] = "blocked" THEN dequeues ELSE rdEpoch[r]]
    /\ pumpPc' = "qbuf"
    /\ UNCHANGED <<mainVars, devVars, pumpErr, qbuf, jpegLen, lenSeq, dequeues, lastUsed,
                   rdLen, rdSeq, rdBytes, rdLate, panicked>>

\* VIDIOC_QBUF succeeds: Filled -> Armed, back to the wait
PumpQbufOK ==
    /\ Alive
    /\ pumpPc = "qbuf"
    /\ slot' = "armed"
    /\ enqueues' = enqueues + 1
    /\ pumpPc' = "select"
    /\ UNCHANGED <<mainVars, data, devPos, devSeq, done, pumpErr, qbuf, writer, jpegLen,
                   lenSeq, dequeues, lastUsed, rdVars>>

\* variant: the VIDIOC_QBUF error is ignored and the loop goes on
PumpQbufErrContinues ==
    /\ Alive
    /\ pumpPc = "qbuf"
    /\ pumpPc' = "select"
    /\ UNCHANGED <<mainVars, devVars, pumpErr, qbuf, writer, jpegLen,
                   lenSeq, dequeues, lastUsed, rdVars>>

\* VIDIOC_QBUF fails: return errno
PumpQbufErr ==
    /\ Alive
    /\ pumpPc = "qbuf"
    /\ pumpPc' = "returned"
    /\ pumpErr' = "qbuf"
    /\ UNCHANGED <<mainVars, devVars, qbuf, writer, jpegLen,
                   lenSeq, dequeues, lastUsed, rdVars>>

\* ---- getJPEG handler ----------------------------------------------------
\* a request arrives and the handler calls mutex.RLock
RLock(r) ==
    /\ mainPc = "serve"
    /\ rpc[r] = "idle"
    /\ rpc' = [rpc EXCEPT ![r] = IF RLockAdmits THEN "locked" ELSE "blocked"]
    /\ rdEpoch' = [rdEpoch EXCEPT ![r] = IF RLockAdmits THEN dequeues ELSE 0]
    /\ rdLate' = [rdLate EXCEPT ![r] = (pumpPc = "returned")]
    /\ UNCHANGED <<mainVars, devVars, pumpVars, writer, jpegLen, lenSeq, dequeues, lastUsed,
                   rdLen, rdSeq, rdBytes, panicked>>

\* the slice expression data[:n] is in range
SliceInRange(n) == n <= Len(data)

\* data[:jpegLen] is evaluated; out of range it panics: the deferred RUnlock
\* runs and net/http drops the request
ReadLen(r) ==
    /\ Alive
    /\ rpc[r] = "locked"
    /\ IF SliceInRange(jpegLen)
       THEN /\ rpc' = [rpc EXCEPT ![r] = "write"]
            /\ rdLen' = [rdLen EXCEPT ![r] = jpegLen]
            /\ rdSeq' = [rdSeq EXCEPT ![r] = lenSeq]
            /\ UNCHANGED <<rdEpoch, rdLate, panicked>>
       ELSE /\ rpc' = [rpc EXCEPT ![r] = "idle"]
            /\ rdEpoch' = [rdEpoch EXCEPT ![r] = 0]
            /\ rdLate' = [rdLate EXCEPT ![r] = FALSE]
            /\ panicked' = TRUE
            /\ UNCHANGED <<rdLen, rdSeq>>
    /\ UNCHANGED <<mainVars, devVars, pumpVars, writer, jpegLen, lenSeq, dequeues, lastUsed,
                   rdBytes>>

\* w.Write copies the next byte of the slice to the response
ReadCopy(r) ==
    /\ Alive
    /\ rpc[r] = "write"
    /\ Len(rdBytes[r]) < rdLen[r]
    /\ rdBytes' = [rdBytes EXCEPT ![r] = Append(rdBytes[r], data[Len(rdBytes[r]) + 1])]
    /\ UNCHANGED <<mainVars, devVars, pumpVars, writer, jpegLen, lenSeq, dequeues, lastUsed,
                   rpc, rdLen, rdSeq, rdEpoch, rdLate, panicked>>

\* w.Write has returned; the deferred mutex.RUnlock runs and the handler ends
RUnlock(r) ==
    /\ Alive
    /\ rpc[r] = "write"
    /\ Len(rdBytes[r]) = rdLen[r]
    /\ rpc' = [rpc EXCEPT ![r] = "idle"]
    /\ rdLen' = [rdLen EXCEPT ![r] = 0]
    /\ rdSeq' = [rdSeq EXCEPT ![r] = 0]
    /\ rdBytes' = [rdBytes EXCEPT ![r] = <<>>]
    /\ rdEpoch' = [rdEpoch EXCEPT ![r] = 0]
    /\ rdLate' = [rdLate EXCEPT ![r] = FALSE]
    /\ UNCHANGED <<mainVars, devVars, pumpVars, writer, jpegLen, lenSeq, dequeues, lastUsed,
                   panicked>>

\* ---- specification ------------------------------------------------------
MainStep ==
    \/ MainIoctlOK
    \/ MainMmapOK
    \/ MainQbufOK
    \/ MainStreamOnOK
    \/ MainGoPump
    \/ MainFatal

DevStep ==
    \/ DevWrite
    \/ DevComplete

\* every pump step that does not wait for the device
PumpRun ==
    \/ PumpLock
    \/ PumpLockAcquire
    \/ PumpDqbufOK
    \/ PumpSave
    \/ PumpUnlock
    \/ PumpQbufOK

PumpFail ==
    \/ PumpSelectErr
    \/ PumpDqbufErr
    \/ PumpQbufErr

ReaderRun(r) ==
    \/ ReadLen(r)
    \/ ReadCopy(r)
    \/ RUnlock(r)

Next ==
    \/ MainStep
    \/ DevStep
    \/ PumpSelectOK
    \/ PumpRun
    \/ PumpFail
    \/ \E r \in Readers : RLock(r)
    \/ \E r \in Readers : ReaderRun(r)

Spec == Init /\ [][Next]_vars

\* the steps of a handler that need only the processor
ReaderCpu(r) ==
    \/ ReadLen(r)
    \/ RUnlock(r)

\* the Go scheduler runs every runnable goroutine. A handler inside w.Write
\* is not runnable while its client takes no bytes, and the default server of
\* http.ListenAndServe sets no write deadline: ReadCopy is under no
\* obligation, nor are the device and the arrival of requests
FairSpec ==
    /\ Spec
    /\ WF_vars(PumpSelectOK)
    /\ WF_vars(PumpRun)
    /\ \A r \in Readers : WF_vars(ReaderCpu(r))

TypeOK ==
    /\ mainPc \in {"setfmt", "reqbufs", "querybuf", "mmap", "qbuf", "streamon", "gopump", "serve", "exited"}
    /\ slot \in {"unarmed", "armed", "done", "filled"}
    /\ pumpPc \in {"notstarted", "select", "lock", "lockwait", "dqbuf", "save", "unlock", "qbuf", "returned"}
    /\ writer \in {"none", "pending", "held"}
    /\ jpegLen \in 0..(BufLen + 1)
    /\ done.bytesused \in 0..(BufLen + 1)
    /\ qbuf.bytesused \in 0..(BufLen + 1)
    /\ lastUsed \in 0..(BufLen + 1)
    /\ \A r \in Readers : rpc[r] \in {"idle", "blocked", "locked", "write"}

\* ---- what a request observes --------------------------------------------
\* w.Write without WriteHeader answers 200 with the bytes written
Response(r) == [status |-> 200, body |-> rdBytes[r]]

InFlight(r) == rpc[r] \in {"blocked", "locked", "write"}

\* the pump is between mutex.Lock returning and mutex.Unlock
InCritical == writer = "held"

\* bytesused of the latest successful dequeue (0 before the first): a history
\* value, no variable of the program keeps it across iterations
LastLen == lastUsed

\* w.Write has returned: the response body is complete, RUnlock is still due
Served(r) == rpc[r] = "write" /\ Len(rdBytes[r]) = rdLen[r]

\* the handler is inside w.Write with bytes its client has not taken yet
MidWrite(r) == rpc[r] = "write" /\ Len(rdBytes[r]) < rdLen[r]

\* ---- C1 -----------------------------------------------------------------
\* C1: no torn reads: every byte a read has returned was written by the same
\* frame whose dequeue stored the length the read truncates to.
C1_NoTornReads ==
    \A r \in Readers :
        \A i \in 1..Len(rdBytes[r]) : rdBytes[r][i] = rdSeq[r]

\* ---- C2 -----------------------------------------------------------------
\* C2: no reader holds shared access while the slot is Armed (enqueued to the
\* device, hardware may write into it).
C2_NoReadWhileArmed ==
    \A r \in Readers : Holding(r) => slot # "armed"

\* ---- C3 -----------------------------------------------------------------
C3_Exclusion ==
    InCritical => \A r \in Readers : ~Holding(r)

C3_Entry ==
    \A r \in Readers :
        /\ (InCritical /\ rpc[r] = "idle" /\ rpc'[r] # "idle")
              => rpc'[r] = "blocked"
        /\ (~Holding(r) /\ Holding(r)')
              => \/ rpc[r] = "idle" /\ writer = "none"
                 \/ rpc[r] = "blocked" /\ InCritical /\ writer' = "none"

\* C3: reader-writer mutual exclusion: while the pump is inside its exclusive
\* section no reader holds shared access; a reader that arrives then blocks,
\* and a blocked reader enters only in the step in which the pump releases.
C3_ReaderWriterExclusion ==
    []C3_Exclusion /\ [][C3_Entry]_vars

\* the pump is in its exclusive section, about to store jpegLen, while a
\* reader that arrived meanwhile waits
C3_Witness ==
    /\ InCritical
    /\ pumpPc = "save"
    /\ \E r \in Readers : rpc[r] = "blocked"

\* ---- C4 -----------------------------------------------------------------
\* C4: a read served before the first successful dequeue reports NoFrameYet,
\* not a successful response with zero bytes.
C4_NoFrameYetReported ==
    \A r \in Readers :
        (Served(r) /\ rdEpoch[r] = 0)
            => ~(Response(r).status = 200 /\ Response(r).body = <<>>)

C6_NoLockInWait ==
    pumpPc = "select"
        => /\ writer = "none"
           /\ \A r \in Readers : rpc[r] # "blocked"
           /\ \A r \in Readers :
                 Served(r)
                    => /\ rdLen[r] = LastLen
                       /\ \A i \in 1..Len(rdBytes[r]) : rdBytes[r][i] = lenSeq

\* C6: the pump holds no lock while blocked in unix.Select, so no reader waits
\* then, and if the pump stays blocked there forever every read in flight
\* completes (unless the process exits first), returning the last captured
\* frame: its length and its bytes.
C6_ReadsNeverBlockOnWait ==
    /\ []C6_NoLockInWait
    /\ \A r \in Readers :
          (<>[](pumpPc = "select"))
             => (InFlight(r) ~> (rpc[r] = "idle" \/ ~Alive))

\* ---- C7 -----------------------------------------------------------------
C7_AfterReturn ==
    pumpPc = "returned"
        => /\ writer = "none"
           /\ jpegLen = LastLen
           /\ \A r \in Readers : rpc[r] # "blocked"
           /\ \A r \in Readers : (rdLate[r] /\ Served(r)) => rdLen[r] = LastLen

C7_EntersAtOnce ==
    \A r \in Readers :
        (pumpPc = "returned" /\ rpc[r] = "idle" /\ rpc'[r] # "idle")
            => rpc'[r] = "locked"

C8_PumpErrorIsFatal ==
    (pumpPc = "returned") ~> (mainPc = "exited")

\* ---- C9 -----------------------------------------------------------------
\* C9: a stop of the process ends the pump loop and releases the mapped
\* buffer: when the process has stopped, a pump that was started has left its
\* loop and the buffer has been unmapped.
C9_StopEndsPump ==
    (mainPc = "exited" /\ pumpPc # "notstarted")
        => (pumpPc = "returned" /\ ~mapped)

\* ---- C10 ----------------------------------------------------------------
\* C10 as stated: a reader waits for shared access only while the pump is
\* inside its critical section.
C10_WaitOnlyInCritical ==
    \A r \in Readers : rpc[r] = "blocked" => InCritical

\* C10: a reader waits for shared access only between the pump's mutex.Lock
\* call and its mutex.Unlock (the pump waiting behind in-flight readers, or
\* inside its critical section), and never while the pump is in unix.Select.
C10_WaitOnlyWhilePumpLocks ==
    \A r \in Readers :
        rpc[r] = "blocked"
            => /\ pumpPc \in {"lockwait", "dqbuf", "save", "unlock"}
               /\ writer \in {"pending", "held"}

\* a reader waits while the pump itself still waits behind another reader
C10_Witness ==
    /\ pumpPc = "lockwait"
    /\ \E r, q \in Readers : rpc[r] = "blocked" /\ Holding(q)

\* ---- C11 ----------------------------------------------------------------
\* C11: every step that changes jpegLen or the contents of the mapped buffer
\* is taken while the pump holds exclusive access, and no step of a read
\* handler changes jpegLen, the buffer contents or the slot's state.
C11_MutationOnlyInCritical ==
    [][/\ (jpegLen' # jpegLen \/ data' # data) => InCritical
       /\ \A r \in Readers :
             (RLock(r) \/ ReaderRun(r)) => UNCHANGED <<jpegLen, data, slot>>]_vars

\* ---- C12 ----------------------------------------------------------------
C12_Inv ==
    /\ pumpPc = "qbuf" => (slot = "filled" /\ writer = "none" /\ enqueues = dequeues)
    /\ pumpPc = "select" => slot \in {"armed", "done"}

C12_Step ==
    /\ (enqueues' # enqueues /\ pumpPc # "notstarted")
          => (pumpPc = "qbuf" /\ slot = "filled" /\ writer = "none" /\ pumpPc' = "select")
    /\ (pumpPc = "unlock" /\ pumpPc' # "unlock") => pumpPc' = "qbuf"
    /\ (pumpPc # "select" /\ pumpPc' = "select")
          => \/ pumpPc = "notstarted" /\ slot' \in {"armed", "done"}
             \/ pumpPc = "qbuf" /\ slot' = "armed" /\ enqueues' = enqueues + 1

\* C12: the pump re-enqueues only after a successful dequeue of the same
\* iteration and after it has released exclusive access; the re-enqueue is its
\* next step after the release, and it never waits with the slot un-armed.
C12_ReenqueueOrdering ==
    []C12_Inv /\ [][C12_Step]_vars

\* the pump waits again after it has dequeued and re-enqueued the slot
C12_Witness ==
    /\ pumpPc = "select"
    /\ slot = "armed"
    /\ dequeues = 1
    /\ enqueues = 2

\* ---- C13 ----------------------------------------------------------------
C13_Inv ==
    /\ enqueues \in {dequeues, dequeues + 1}
    /\ slot = "unarmed" <=> enqueues = 0
    /\ slot \in {"armed", "done"} <=> enqueues = dequeues + 1
    /\ slot = "filled" <=> (enqueues = dequeues /\ enqueues >= 1)

C13_Step ==
    /\ slot' # slot
          => <<slot, slot'>> \in {<<"unarmed", "armed">>, <<"armed", "done">>,
                                  <<"done", "filled">>, <<"filled", "armed">>}
    /\ enqueues' # enqueues
          => (slot \in {"unarmed", "filled"} /\ slot' = "armed" /\ enqueues' = enqueues + 1)
    /\ dequeues' # dequeues
          => (slot = "done" /\ slot' = "filled" /\ dequeues' = dequeues + 1)

\* C13: the slot moves Unarmed -> Armed -> Filled -> Armed -> ...; enqueues
\* and successful dequeues strictly alternate, starting with an enqueue.
C13_SlotLifecycle ==
    []C13_Inv /\ [][C13_Step]_vars

\* the slot has been dequeued a second time, after its re-enqueue
C13_Witness ==
    /\ slot = "filled"
    /\ enqueues = 2
    /\ dequeues = 2

\* ---- C14 ----------------------------------------------------------------
C14_Inv ==
    /\ (pumpPc # "notstarted" \/ \E r \in Readers : rpc[r] # "idle")
          => (mapped /\ enqueues >= 1 /\ streaming)
    /\ streaming => enqueues >= 1
    /\ enqueues >= 1 => mapped
    /\ mainPc \in {"setfmt", "reqbufs", "querybuf", "mmap"} => ~mapped
    /\ mainPc = "qbuf" => (mapped /\ enqueues = 0)
    /\ mainPc = "streamon" => (enqueues = 1 /\ ~streaming)
    /\ mainPc = "gopump" => (streaming /\ pumpPc = "notstarted")

C14_Step ==
    /\ mainPc' # mainPc => (mainPc' = "exited" \/ mainPc' = NextStep(mainPc))
    /\ (mainPc # "serve" /\ mainPc' = "exited")
          => (pumpPc' = "notstarted" /\ \A r \in Readers : rpc'[r] = "idle")
    /\ \A r \in Readers : (rpc[r] = "idle" /\ rpc'[r] # "idle") => mainPc = "serve"

\* C14: the startup steps run in order and a failure of any of them ends the
\* process before the pump starts and before a request is accepted; whenever
\* the pump runs or a read is in progress the buffer is mapped, the slot has
\* been enqueued and streaming is on.
C14_StartupAllOrNothing ==
    []C14_Inv /\ [][C14_Step]_vars

\* a read is served while the pump runs, after a complete startup
C14_Witness ==
    /\ mainPc = "serve"
    /\ pumpPc = "lockwait"
    /\ mapped /\ streaming /\ enqueues = 1
    /\ \E r \in Readers : Served(r)

\* ---- C15 ----------------------------------------------------------------
\* C15 as stated: the pump dequeues before it acquires exclusive access; no
\* dequeue happens while the pump holds it.
C15_DequeueBeforeLock ==
    [][dequeues' # dequeues => ~InCritical]_vars

C15_Inv ==
    /\ InCritical <=> pumpPc \in {"dqbuf", "save", "unlock"}
    /\ writer = "pending" <=> pumpPc = "lockwait"

C15_Step ==
    /\ (pumpPc = "select" /\ pumpPc' # "select") => pumpPc' \in {"lock", "returned"}
    /\ (pumpPc = "lock" /\ pumpPc' # "lock") => pumpPc' = "lockwait"
    /\ (pumpPc = "lockwait" /\ pumpPc' # "lockwait") => pumpPc' = "dqbuf"
    /\ (pumpPc = "dqbuf" /\ pumpPc' # "dqbuf") => pumpPc' \in {"save", "returned"}
    /\ (pumpPc = "save" /\ pumpPc' # "save") => pumpPc' = "unlock"
    /\ dequeues' # dequeues => (InCritical /\ pumpPc = "dqbuf" /\ writer' = "held")
    /\ jpegLen' # jpegLen => (InCritical /\ pumpPc = "save" /\ writer' = "held")

\* C15: in each iteration the pump waits for readiness, then acquires
\* exclusive access, then dequeues the slot while holding it, stores the valid
\* length and releases; the dequeue is performed under exclusive access.
C15_LockThenDequeue ==
    []C15_Inv /\ [][C15_Step]_vars

\* the pump has dequeued a one-byte frame under the lock and is about to
\* store its length
C15_Witness ==
    /\ pumpPc = "save"
    /\ InCritical
    /\ dequeues = 1
    /\ qbuf.bytesused = 1
    /\ jpegLen = 0

\* ---- C16 ----------------------------------------------------------------
\* C16: when the process has shut down after serving (the HTTP listener
\* returned), streaming has been stopped and the buffer unmapped.
C16_ShutdownReleases ==
    (mainPc = "exited" /\ pumpPc # "notstarted") => (~streaming /\ ~mapped)

\* ---- C17 ----------------------------------------------------------------
\* C17: the stored length is always within the mapped buffer, so the slice
\* data[:jpegLen] is in range and no handler panics.
C17_LenInRange ==
    /\ jpegLen \in 0..Len(data)
    /\ SliceInRange(jpegLen)
    /\ ~panicked
    /\ \A r \in Readers : rdLen[r] <= Len(data)

\* ---- C18 ----------------------------------------------------------------
\* C18: the pump is not starved by readers: provided every reader that holds
\* shared access eventually releases it, the pump obtains exclusive access
\* once it has called mutex.Lock, and a frame the device completes while the
\* pump is in its loop gets dequeued and its length published (unless the pump
\* returns on a device error or the process exits).
C18_PumpNotStarved ==
    (\A r \in Readers : []<>(~Holding(r)))
        => /\ (pumpPc = "lockwait") ~> (InCritical \/ ~Alive)
           /\ (slot = "done" /\ pumpPc \notin {"notstarted", "returned"})
                 ~> (lenSeq = done.sequence \/ pumpPc = "returned" \/ ~Alive)

\* the pump has obtained exclusive access for its second frame while every
\* reader waits behind it
C18_Witness ==
    /\ pumpPc = "dqbuf"
    /\ InCritical
    /\ dequeues = 1
    /\ \A r \in Readers : rpc[r] = "blocked"

====
